---- MODULE Spec2Model ----
(***************************************************************************)
(* Model of streamlit_app.py: the document-to-evidence pipeline            *)
(* (sectionize, focus, detect_constructs, detect_measures,                 *)
(* map_measures_to_components, extract_numbers, threshold_comments,        *)
(* find_sents, jingle_jangle, report).                                     *)
(*                                                                         *)
(* A text is a sequence of atoms.  An atom is one regex-relevant unit of   *)
(* the string:                                                             *)
(*   k = "w"  a run of letters (or a fixed phrase) whose lower-case form   *)
(*            is w, followed by s letters "s", written in letter case cs   *)
(*   k = "d"  one decimal digit w                                          *)
(*   k = "p"  one punctuation character w                                  *)
(*   k = "sp" one whitespace character w (" " or "\n")                     *)
(* Two adjacent "w"/"d" atoms form one longer word, so \b holds between    *)
(* two atoms only when exactly one of them is a word character.            *)
(***************************************************************************)
EXTENDS Integers, Sequences, FiniteSets, TLC

VARIABLES pc, KB_CONS, KB_MEAS, blob, secs, focus, constructs, measures,
          comp_map, nums, num_comments, sents, jj, report, prev

vars == <<pc, KB_CONS, KB_MEAS, blob, secs, focus, constructs, measures,
          comp_map, nums, num_comments, sents, jj, report, prev>>

----------------------------------------------------------------------------
(* Atoms *)

W(w, s, cs) == [k |-> "w", w |-> w, s |-> s, cs |-> cs]
D(d) == [k |-> "d", w |-> d, s |-> 0, cs |-> "lower"]
P(c) == [k |-> "p", w |-> c, s |-> 0, cs |-> "lower"]
SP == [k |-> "sp", w |-> " ", s |-> 0, cs |-> "lower"]
NL == [k |-> "sp", w |-> "\n", s |-> 0, cs |-> "lower"]

IsSpace(a) == a.k = "sp"
IsWordChar(a) == a.k \in {"w", "d"}
IsDigit(a) == a.k = "d"

\* \b at the gap between positions i and i+1 of t (i in 0..Len(t))
WordBoundary(t, i) ==
    LET l == i >= 1 /\ IsWordChar(t[i])
        r == i < Len(t) /\ IsWordChar(t[i + 1])
    IN l # r

\* all sequences over S of length at most n
SeqsUpTo(S, n) == UNION {[1..m -> S] : m \in 0..n}

----------------------------------------------------------------------------
(* str.strip, str.splitlines, "\n".join *)

RECURSIVE LStrip(_)
LStrip(t) == IF t # <<>> /\ IsSpace(Head(t)) THEN LStrip(Tail(t)) ELSE t

RECURSIVE RStrip(_)
RStrip(t) ==
    IF t # <<>> /\ IsSpace(t[Len(t)]) THEN RStrip(SubSeq(t, 1, Len(t) - 1)) ELSE t

Strip(t) == RStrip(LStrip(t))

FirstNL(t) ==
    IF \E i \in 1..Len(t) : t[i] = NL
    THEN CHOOSE i \in 1..Len(t) : t[i] = NL /\ \A j \in 1..(i - 1) : t[j] # NL
    ELSE 0

RECURSIVE SplitLines(_)
SplitLines(t) ==
    IF t = <<>> THEN <<>>
    ELSE LET i == FirstNL(t)
         IN IF i = 0 THEN <<t>>
            ELSE <<SubSeq(t, 1, i - 1)>> \o SplitLines(SubSeq(t, i + 1, Len(t)))

RECURSIVE Join(_, _)
Join(sep, ls) ==
    IF ls = <<>> THEN <<>>
    ELSE IF Len(ls) = 1 THEN ls[1]
    ELSE ls[1] \o sep \o Join(sep, Tail(ls))

----------------------------------------------------------------------------
(* sectionize *)

\* the keywords of SECTION_HEAD and, for each, how many trailing "s" the
\* pattern (alternative followed by s?) accepts
HeadStems ==
    {"abstract", "introduction", "background", "theory", "method", "measure",
     "participant", "procedure", "result", "discussion", "conclusion"}

HeadMaxS(w) == IF w \in {"method", "measure", "participant", "result"} THEN 2 ELSE 1

\* SECTION_HEAD matches exactly the atom at position i of t
HeadAt(t, i) ==
    /\ t[i].k = "w"
    /\ t[i].w \in HeadStems
    /\ t[i].s <= HeadMaxS(t[i].w)
    /\ WordBoundary(t, i - 1)
    /\ WordBoundary(t, i)

\* SECTION_HEAD.search(t): position of the leftmost match, 0 when none
SECTION_HEAD(t) ==
    IF \E i \in 1..Len(t) : HeadAt(t, i)
    THEN CHOOSE i \in 1..Len(t) : HeadAt(t, i) /\ \A j \in 1..(i - 1) : ~HeadAt(t, j)
    ELSE 0

Capital ==
    [w \in HeadStems |->
        CASE w = "abstract" -> "Abstract"
          [] w = "introduction" -> "Introduction"
          [] w = "background" -> "Background"
          [] w = "theory" -> "Theory"
          [] w = "method" -> "Method"
          [] w = "measure" -> "Measure"
          [] w = "participant" -> "Participant"
          [] w = "procedure" -> "Procedure"
          [] w = "result" -> "Result"
          [] w = "discussion" -> "Discussion"
          [] w = "conclusion" -> "Conclusion"]

RECURSIVE Esses(_)
Esses(n) == IF n = 0 THEN "" ELSE "s" \o Esses(n - 1)

\* group(0).title(): first letter upper, the rest lower, every letter kept
Title(a) == Capital[a.w] \o Esses(a.s)

\* mutant of the loop body: the line is appended before the section switches
RECURSIVE SecLoopAppendFirst(_, _, _)
SecLoopAppendFirst(lines, acc, current) ==
    IF lines = <<>> THEN acc
    ELSE LET line == Head(lines)
             st == Strip(line)
             hit == SECTION_HEAD(st)
             cur == IF hit # 0 THEN Title(st[hit]) ELSE current
             a1 == [acc EXCEPT ![current] = Append(@, line)]
             a2 == IF cur \in DOMAIN a1 THEN a1 ELSE a1 @@ (cur :> <<>>)
         IN SecLoopAppendFirst(Tail(lines), a2, cur)

\* the body of the for loop, lines 39-42
RECURSIVE SecLoop(_, _, _)
SecLoop(lines, acc, current) ==
    IF lines = <<>> THEN acc
    ELSE LET line == Head(lines)
             st == Strip(line)
             hit == SECTION_HEAD(st)
             cur == IF hit # 0 THEN Title(st[hit]) ELSE current
             a1 == IF cur \in DOMAIN acc THEN acc ELSE acc @@ (cur :> <<>>)
             a2 == [a1 EXCEPT ![cur] = Append(@, line)]
         IN SecLoop(Tail(lines), a2, cur)

sectionize(text) ==
    LET acc == SecLoop(SplitLines(text), ("Full Text" :> <<>>), "Full Text")
    IN [k \in DOMAIN acc |-> Strip(Join(<<NL>>, acc[k]))]

----------------------------------------------------------------------------
(* Bounds and input sets of the sectionize specification *)

MaxTextLen == 4

Method == W("method", 0, "title")
METHODS == W("method", 1, "upper")
Results == W("result", 1, "title")
foo == W("foo", 0, "lower")
bar == W("bar", 0, "lower")

SectAtoms == {NL, SP, Method, METHODS, Results, foo}

FreeLines == {<<foo>>, <<bar>>, <<>>}
Preambles == {<<>>, <<foo, NL>>}

\* "Method", three keyword-free lines, "Results", two keyword-free lines
ExampleText(pre, x, y) ==
    pre \o Join(<<NL>>, <<<<Method>>>> \o x \o <<<<Results>>>> \o y)

ExampleTexts ==
    {ExampleText(pre, x, y) :
        pre \in Preambles, x \in [1..3 -> FreeLines], y \in [1..2 -> FreeLines]}

SectionTexts == SeqsUpTo(SectAtoms, MaxTextLen) \cup ExampleTexts

None == <<>>

InitSectionize ==
    /\ pc = "sectionize"
    /\ blob \in SectionTexts
    /\ KB_CONS = None /\ KB_MEAS = None
    /\ secs = None /\ focus = None /\ constructs = None /\ measures = None
    /\ comp_map = None /\ nums = None /\ num_comments = None /\ sents = None
    /\ jj = None /\ report = None /\ prev = None

Sectionize ==
    /\ pc = "sectionize"
    /\ secs' = sectionize(blob)
    /\ pc' = "sectionized"
    /\ UNCHANGED <<KB_CONS, KB_MEAS, blob, focus, constructs, measures, comp_map,
                   nums, num_comments, sents, jj, report, prev>>

NextSectionize == Sectionize

SpecSectionize == InitSectionize /\ [][NextSectionize]_vars

----------------------------------------------------------------------------
(* Properties of sectionize *)

Lines == SplitLines(blob)

ContainsKeyword(line) == \E i \in 1..Len(line) : HeadAt(line, i)

KeywordOf(line) ==
    line[CHOOSE i \in 1..Len(line) :
            HeadAt(line, i) /\ \A j \in 1..(i - 1) : ~HeadAt(line, j)]

\* index of the most recent line, at or before line i, containing a keyword
LastHeading(i) ==
    IF \E j \in 1..i : ContainsKeyword(Lines[j])
    THEN CHOOSE j \in 1..i :
            ContainsKeyword(Lines[j]) /\ \A m \in (j + 1)..i : ~ContainsKeyword(Lines[m])
    ELSE 0

SectionOfLine(i) ==
    IF LastHeading(i) = 0 THEN "Full Text" ELSE Title(KeywordOf(Lines[LastHeading(i)]))

RECURSIVE LinesOf(_, _)
LinesOf(k, i) ==
    IF i > Len(Lines) THEN <<>>
    ELSE (IF SectionOfLine(i) = k THEN <<Lines[i]>> ELSE <<>>) \o LinesOf(k, i + 1)

IsExample(pre, x, y) == blob = ExampleText(pre, x, y)

\* C2: sectionize partitions the lines of the text.  The sentinel "Full Text"
\* is always a key; a line before the first line containing a heading keyword
\* is placed under "Full Text" and every other line under the name given by
\* the most recent line containing a keyword (a heading line is placed in the
\* section it opens); each section's text is its lines in original order,
\* joined by newlines and trimmed.  For "Method" + three keyword-free lines +
\* "Results" + two keyword-free lines the non-sentinel sections are exactly
\* "Method" and "Results", holding the three and the two lines.
C2_SectionizePartitions ==
    pc = "sectionized" =>
        /\ "Full Text" \in DOMAIN secs
        /\ DOMAIN secs = {"Full Text"} \cup {SectionOfLine(i) : i \in 1..Len(Lines)}
        /\ \A k \in DOMAIN secs : secs[k] = Strip(Join(<<NL>>, LinesOf(k, 1)))
        /\ blob \in ExampleTexts =>
              \A pre \in Preambles, x \in [1..3 -> FreeLines], y \in [1..2 -> FreeLines] :
                  IsExample(pre, x, y) =>
                      /\ DOMAIN secs \ {"Full Text"} = {"Method", "Results"}
                      /\ secs["Full Text"] = Strip(pre)
                      /\ secs["Method"] = Strip(Join(<<NL>>, <<<<Method>>>> \o x))
                      /\ secs["Results"] = Strip(Join(<<NL>>, <<<<Results>>>> \o y))

C2_Witness ==
    /\ pc = "sectionized"
    /\ blob = ExampleText(<<foo, NL>>, <<<<foo>>, <<bar>>, <<foo>>>>, <<<<bar>>, <<foo>>>>)
    /\ secs["Full Text"] = <<foo>>
    /\ secs["Method"] = <<Method, NL, foo, NL, bar, NL, foo>>
    /\ secs["Results"] = <<Results, NL, bar, NL, foo>>

\* the keys of the result that a heading spelt with keyword w can produce
KeysOfKeyword(w) ==
    {k \in DOMAIN secs : \E n \in 0..HeadMaxS(w) : k = Capital[w] \o Esses(n)}

\* C3: the section name of a heading is the matched keyword in title case
\* with singular and plural folded: headings "Method" and "Methods" (in any
\* letter case) select the same section name, so the lines under either
\* spelling accumulate under one key of the result.
C3_PluralFolded ==
    pc = "sectionized" => \A w \in HeadStems : Cardinality(KeysOfKeyword(w)) <= 1

----------------------------------------------------------------------------
(* detect_measures *)

\* re.search(rf'\b{re.escape(lbl)}\b', t, re.I) for a label that begins and
\* ends with a letter: some occurrence of the phrase, in any letter case,
\* with a word boundary on both sides
Found(lbl, t) ==
    \E i \in 1..Len(t) :
        /\ t[i].k = "w" /\ t[i].w = lbl.w /\ t[i].s = lbl.s
        /\ WordBoundary(t, i - 1)
        /\ WordBoundary(t, i)

\* position in the alias list of the first alias that matches, 0 when none
FirstAlias(aliases, t) ==
    IF \E i \in 1..Len(aliases) : Found(aliases[i], t)
    THEN CHOOSE i \in 1..Len(aliases) :
            Found(aliases[i], t) /\ \A j \in 1..(i - 1) : ~Found(aliases[j], t)
    ELSE 0

Detected(node, alias) ==
    [measure |-> node.measure, alias |-> alias, type |-> node.type,
     targets |-> node.targets]

RECURSIVE AllAliases(_, _, _)
AllAliases(node, aliases, t) ==
    IF aliases = <<>> THEN <<>>
    ELSE (IF Found(Head(aliases), t) THEN <<Detected(node, Head(aliases))>> ELSE <<>>)
            \o AllAliases(node, Tail(aliases), t)

\* mutant of the loops: the break after the first matching alias is missing
RECURSIVE MeasLoopNoBreak(_, _)
MeasLoopNoBreak(items, t) ==
    IF items = <<>> THEN <<>>
    ELSE AllAliases(Head(items), Head(items).aliases, t)
            \o MeasLoopNoBreak(Tail(items), t)

\* the two nested for loops, lines 96-100, over the items of the registry
RECURSIVE MeasLoop(_, _)
MeasLoop(items, t) ==
    IF items = <<>> THEN <<>>
    ELSE LET node == Head(items)
             i == FirstAlias(node.aliases, t)
         IN (IF i # 0 THEN <<Detected(node, node.aliases[i])>> ELSE <<>>)
                \o MeasLoop(Tail(items), t)

\* mutant of detect_measures: found is a module-level list that is never reset
detect_measures_global(text) == measures \o MeasLoop(KB_MEAS, text)

detect_measures(text) == MeasLoop(KB_MEAS, text)

----------------------------------------------------------------------------
(* Bounds and input sets of the detect_measures specification *)

MaxMeasures == 2
MaxFocusLen == 3

MeasureIds == {"GritS", "BSCS", "Stroop"}

grit_s == W("grit-s", 0, "lower")
Grit_S == W("grit-s", 0, "title")
stroop == W("stroop", 0, "lower")
Stroop == W("stroop", 0, "title")

AliasLists == {<<Grit_S>>, <<Stroop>>, <<Grit_S, Stroop>>, <<Stroop, Grit_S>>}

TypeOfId ==
    [m \in MeasureIds |-> IF m = "Stroop" THEN "behavioral task" ELSE "self-report"]

TargetsOfId ==
    [m \in MeasureIds |-> IF m = "Stroop" THEN <<"inhibition">> ELSE <<"persistence">>]

\* a registry is a YAML mapping: its keys are distinct and keep file order
Registries(nodes) ==
    {kb \in SeqsUpTo(nodes, MaxMeasures) :
        \A i, j \in 1..Len(kb) : i # j => kb[i].measure # kb[j].measure}

MeasureNodes ==
    {[measure |-> m, aliases |-> al, type |-> TypeOfId[m], targets |-> TargetsOfId[m]] :
        m \in MeasureIds, al \in AliasLists}

MeasureTexts == SeqsUpTo({SP, grit_s, Stroop, foo}, MaxFocusLen)

InitMeasures ==
    /\ pc = "detect_measures"
    /\ KB_MEAS \in Registries(MeasureNodes)
    /\ focus \in MeasureTexts
    /\ KB_CONS = None /\ blob = None
    /\ secs = None /\ constructs = None /\ measures = None
    /\ comp_map = None /\ nums = None /\ num_comments = None /\ sents = None
    /\ jj = None /\ report = None /\ prev = None

DetectMeasures ==
    /\ pc = "detect_measures"
    /\ measures' = detect_measures(focus)
    /\ pc' = "measures_detected"
    /\ UNCHANGED <<KB_CONS, KB_MEAS, blob, secs, focus, constructs, comp_map,
                   nums, num_comments, sents, jj, report, prev>>

NextMeasures == DetectMeasures

SpecMeasures == InitMeasures /\ [][NextMeasures]_vars

\* position of measure id m in the registry, 0 when it is not registered
KbIndex(m) ==
    IF \E i \in 1..Len(KB_MEAS) : KB_MEAS[i].measure = m
    THEN CHOOSE i \in 1..Len(KB_MEAS) : KB_MEAS[i].measure = m
    ELSE 0

\* C1: detect_measures never emits two entries with the same measure id; a
\* measure is emitted exactly once if at least one of its aliases matches the
\* text, with the first matching alias in listed order as its alias, and not
\* at all otherwise; the entries are in registration order, wherever the
\* aliases occur in the text.
C1_DetectMeasures ==
    pc = "measures_detected" =>
        /\ \A i, j \in 1..Len(measures) :
              i # j => measures[i].measure # measures[j].measure
        /\ \A n \in 1..Len(KB_MEAS) :
              LET node == KB_MEAS[n]
                  hits == {i \in 1..Len(measures) : measures[i].measure = node.measure}
                  matching == {a \in 1..Len(node.aliases) : Found(node.aliases[a], focus)}
              IN IF matching = {} THEN hits = {}
                 ELSE /\ Cardinality(hits) = 1
                      /\ \A i \in hits :
                            \E a \in matching :
                               /\ \A b \in matching : a <= b
                               /\ measures[i].alias = node.aliases[a]
                               /\ measures[i].type = node.type
                               /\ measures[i].targets = node.targets
        /\ \A i \in 1..Len(measures) : KbIndex(measures[i].measure) # 0
        /\ \A i, j \in 1..Len(measures) :
              i < j => KbIndex(measures[i].measure) < KbIndex(measures[j].measure)

\* both aliases of the first measure occur, the listed-second one earlier in
\* the text, and the second measure's alias occurs before the first measure's
C1_Witness ==
    /\ pc = "measures_detected"
    /\ focus = <<Stroop, SP, grit_s>>
    /\ Len(KB_MEAS) = 2
    /\ KB_MEAS[1].measure = "GritS" /\ KB_MEAS[1].aliases = <<Grit_S, Stroop>>
    /\ KB_MEAS[2].measure = "Stroop" /\ KB_MEAS[2].aliases = <<Stroop>>
    /\ Len(measures) = 2
    /\ measures[1].measure = "GritS" /\ measures[1].alias = Grit_S
    /\ measures[2].measure = "Stroop"

----------------------------------------------------------------------------
(* jingle_jangle *)

\* a compiled pattern \b(alt|alt|...)\b with re.I is the set of the words it
\* accepts, each given by its lower-case form and its number of trailing "s";
\* pattern.search(t) is true iff one of them occurs as a whole word
Search(pattern, t) ==
    \E i \in 1..Len(t) :
        /\ t[i].k = "w"
        /\ [w |-> t[i].w, s |-> t[i].s] \in pattern
        /\ WordBoundary(t, i - 1)
        /\ WordBoundary(t, i)

Alt(w) == [w |-> w, s |-> 0]
AltS(w) == [w |-> w, s |-> 1]

\* mutant of RE_BOUNDARY: the alternatives "not merely" and "scope
\* conditions?" are missing
RE_BOUNDARY_FourPhrases ==
    {Alt("distinct from"), Alt("differs from"), Alt("as opposed to"), Alt("boundary")}

RE_BOUNDARY ==
    {Alt("distinct from"), Alt("differs from"), Alt("as opposed to"),
     Alt("not merely"), Alt("boundary"), Alt("scope condition"),
     AltS("scope condition")}

JINGLE == "Jingle risk: paper labels 'self-control' but uses Grit-S (grit). Check boundaries."
JANGLE == "Jangle risk: both 'self-control' and 'self-regulation' are used with no explicit differentiation."
METHOD_MIX == "Method mix: self-report and behavioral tasks both present - mapping to theory should be explicit."

HasType(measures_found, ty) ==
    \E i \in 1..Len(measures_found) : measures_found[i].type = ty

\* mutant of jingle_jangle: the three rules are chained with elif
jingle_jangle_elif(text, constructs_found, measures_found) ==
    LET ops == {measures_found[i].measure : i \in 1..Len(measures_found)}
    IN IF "self-control" \in DOMAIN constructs_found /\ "GritS" \in ops
       THEN <<JINGLE>>
       ELSE IF /\ "self-control" \in DOMAIN constructs_found
               /\ "self-regulation" \in DOMAIN constructs_found
               /\ ~Search(RE_BOUNDARY, text)
       THEN <<JANGLE>>
       ELSE IF /\ HasType(measures_found, "self-report")
               /\ HasType(measures_found, "behavioral task")
       THEN <<METHOD_MIX>>
       ELSE <<>>

jingle_jangle(text, constructs_found, measures_found) ==
    LET ops == {measures_found[i].measure : i \in 1..Len(measures_found)}
        w1 == IF "self-control" \in DOMAIN constructs_found /\ "GritS" \in ops
              THEN <<JINGLE>> ELSE <<>>
        w2 == IF /\ "self-control" \in DOMAIN constructs_found
                 /\ "self-regulation" \in DOMAIN constructs_found
                 /\ ~Search(RE_BOUNDARY, text)
              THEN <<JANGLE>> ELSE <<>>
        w3 == IF /\ HasType(measures_found, "self-report")
                 /\ HasType(measures_found, "behavioral task")
              THEN <<METHOD_MIX>> ELSE <<>>
    IN w1 \o w2 \o w3

----------------------------------------------------------------------------
(* Bounds and input sets of the jingle_jangle specification *)

MaxWarnTextLen == 2
MaxFound == 2

BoundaryAtoms ==
    {W("distinct from", 0, "lower"), W("differs from", 0, "lower"),
     W("as opposed to", 0, "title"), W("not merely", 0, "lower"),
     W("boundary", 0, "upper"), W("scope condition", 1, "lower")}

WarnTexts == SeqsUpTo(BoundaryAtoms \cup {SP, foo}, MaxWarnTextLen)

\* constructs_found maps a construct key to its sorted matched labels
ConstructsFound ==
    {[k \in ks |-> <<k>>] : ks \in SUBSET {"self-control", "self-regulation"}}

FoundNodes ==
    {[measure |-> "GritS", alias |-> Grit_S, type |-> "self-report",
      targets |-> <<"persistence">>],
     [measure |-> "GritS", alias |-> Grit_S, type |-> "other",
      targets |-> <<"persistence">>],
     [measure |-> "BSCS", alias |-> W("bscs", 0, "upper"), type |-> "self-report",
      targets |-> <<"inhibition">>],
     [measure |-> "Stroop", alias |-> Stroop, type |-> "behavioral task",
      targets |-> <<"inhibition">>]}

InitWarnings ==
    /\ pc = "jingle_jangle"
    /\ focus \in WarnTexts
    /\ constructs \in ConstructsFound
    /\ measures \in SeqsUpTo(FoundNodes, MaxFound)
    /\ KB_CONS = None /\ KB_MEAS = None /\ blob = None /\ secs = None
    /\ comp_map = None /\ nums = None /\ num_comments = None /\ sents = None
    /\ jj = None /\ report = None /\ prev = None

JingleJangle ==
    /\ pc = "jingle_jangle"
    /\ jj' = jingle_jangle(focus, constructs, measures)
    /\ pc' = "warned"
    /\ UNCHANGED <<KB_CONS, KB_MEAS, blob, secs, focus, constructs, measures,
                   comp_map, nums, num_comments, sents, report, prev>>

NextWarnings == JingleJangle

SpecWarnings == InitWarnings /\ [][NextWarnings]_vars

InWarnings(w) == \E i \in 1..Len(jj) : jj[i] = w

BothLabels ==
    "self-control" \in DOMAIN constructs /\ "self-regulation" \in DOMAIN constructs

\* whole-word, case-insensitive occurrence of one of the phrases ws
Occurs(ws, t) ==
    \E i \in 1..Len(t) :
        /\ t[i].k = "w" /\ t[i].w \in ws /\ t[i].s = 0
        /\ WordBoundary(t, i - 1) /\ WordBoundary(t, i)

ScopeConditionOccurs(t) ==
    \E i \in 1..Len(t) :
        /\ t[i].k = "w" /\ t[i].w = "scope condition" /\ t[i].s \in {0, 1}
        /\ WordBoundary(t, i - 1) /\ WordBoundary(t, i)

FourPhrases == {"distinct from", "differs from", "as opposed to", "boundary"}

\* C4 as stated: with both construct keys detected and no occurrence of
\* "distinct from", "differs from", "as opposed to" or "boundary", the jangle
\* warning is emitted; with such a phrase in the text it is not emitted.
C4_JangleFourPhrases ==
    pc = "warned" =>
        /\ (BothLabels /\ ~Occurs(FourPhrases, focus)) => InWarnings(JANGLE)
        /\ Occurs(FourPhrases, focus) => ~InWarnings(JANGLE)

BoundaryOccurs(t) ==
    Occurs(FourPhrases \cup {"not merely"}, t) \/ ScopeConditionOccurs(t)

\* C4 amended: the boundary phrases are "distinct from", "differs from", "as
\* opposed to", "not merely", "boundary" and "scope condition(s)", matched as
\* whole words in any letter case.  With both construct keys detected and no
\* such phrase, the jangle warning is emitted; with such a phrase in the text
\* it is not emitted.
C4_JangleBoundaryPattern ==
    pc = "warned" =>
        /\ (BothLabels /\ ~BoundaryOccurs(focus)) => InWarnings(JANGLE)
        /\ BoundaryOccurs(focus) => ~InWarnings(JANGLE)

\* both labels, a text with words but no boundary phrase as a whole word
C4_Witness ==
    /\ pc = "warned"
    /\ BothLabels
    /\ focus = <<W("distinct from", 0, "lower"), foo>>
    /\ InWarnings(JANGLE)

WarningRank(w) == CASE w = JINGLE -> 1 [] w = JANGLE -> 2 [] w = METHOD_MIX -> 3

\* C5: the rules are independent.  The jingle warning is emitted iff the
\* construct key "self-control" is detected and measure "GritS" is among the
\* detected measures; the method-mix warning iff some detected measure has
\* type "self-report" and some has type "behavioral task"; each warning
\* appears at most once and the order is jingle, jangle, method-mix.
C5_RulesIndependent ==
    pc = "warned" =>
        /\ InWarnings(JINGLE) <=>
              /\ "self-control" \in DOMAIN constructs
              /\ \E i \in 1..Len(measures) : measures[i].measure = "GritS"
        /\ InWarnings(METHOD_MIX) <=>
              /\ \E i \in 1..Len(measures) : measures[i].type = "self-report"
              /\ \E i \in 1..Len(measures) : measures[i].type = "behavioral task"
        /\ \A i \in 1..Len(jj) : jj[i] \in {JINGLE, JANGLE, METHOD_MIX}
        /\ \A i, j \in 1..Len(jj) : i < j => WarningRank(jj[i]) < WarningRank(jj[j])

C5_Witness ==
    /\ pc = "warned"
    /\ jj = <<JINGLE, JANGLE, METHOD_MIX>>

----------------------------------------------------------------------------
(* float values *)

\* float(x) of a decimal literal is the fraction num/den, den a power of ten,
\* in lowest decimal form: float("0.70") = float("0.7")
RECURSIVE Float(_, _)
Float(num, den) ==
    IF den > 1 /\ num % 10 = 0 THEN Float(num \div 10, den \div 10)
    ELSE [num |-> num, den |-> den]

GE(v, thr) == v.num * thr.den >= thr.num * v.den
LE(v, thr) == v.num * thr.den <= thr.num * v.den

----------------------------------------------------------------------------
(* threshold_comments *)

\* mutant of any_ge: every value has to clear the threshold
all_ge(vals, thr) == \A i \in 1..Len(vals) : GE(vals[i], thr)

any_ge(vals, thr) == \E i \in 1..Len(vals) : GE(vals[i], thr)
any_le(vals, thr) == \E i \in 1..Len(vals) : LE(vals[i], thr)

Comment(label, vals, verdict) == [label |-> label, vals |-> vals, verdict |-> verdict]

ADVISORY ==
    Comment("Measurement invariance mentioned (check configural/metric/scalar).",
            <<>>, "")

Thr70 == Float(70, 100)
Thr90 == Float(90, 100)
Thr08 == Float(8, 100)

\* one "if nums[...]: comments.append(...)" statement
Judge(label, vals, ok, bad) ==
    IF vals # <<>> THEN <<Comment(label, vals, IF ok THEN "OK" ELSE bad)>> ELSE <<>>

\* mutant of threshold_comments: the SRMR comment is emitted before RMSEA
threshold_comments_swapped(n) ==
    Judge("alpha", n.alpha, any_ge(n.alpha, Thr70), "low")
    \o Judge("omega", n.omega, any_ge(n.omega, Thr70), "low")
    \o Judge("test_retest_or_ICC", n.test_retest_or_ICC,
             any_ge(n.test_retest_or_ICC, Thr70), "low")
    \o Judge("CFI", n.CFI, any_ge(n.CFI, Thr90), "poor")
    \o Judge("TLI", n.TLI, any_ge(n.TLI, Thr90), "poor")
    \o Judge("SRMR", n.SRMR, any_le(n.SRMR, Thr08), "high")
    \o Judge("RMSEA", n.RMSEA, any_le(n.RMSEA, Thr08), "high")
    \o (IF n.invariance_signal THEN <<ADVISORY>> ELSE <<>>)

threshold_comments(n) ==
    Judge("alpha", n.alpha, any_ge(n.alpha, Thr70), "low")
    \o Judge("omega", n.omega, any_ge(n.omega, Thr70), "low")
    \o Judge("test_retest_or_ICC", n.test_retest_or_ICC,
             any_ge(n.test_retest_or_ICC, Thr70), "low")
    \o Judge("CFI", n.CFI, any_ge(n.CFI, Thr90), "poor")
    \o Judge("TLI", n.TLI, any_ge(n.TLI, Thr90), "poor")
    \o Judge("RMSEA", n.RMSEA, any_le(n.RMSEA, Thr08), "high")
    \o Judge("SRMR", n.SRMR, any_le(n.SRMR, Thr08), "high")
    \o (IF n.invariance_signal THEN <<ADVISORY>> ELSE <<>>)

----------------------------------------------------------------------------
(* Bounds and input sets of the threshold_comments specification *)

MaxVals == 2

Stats == {"alpha", "omega", "test_retest_or_ICC", "CFI", "TLI", "RMSEA", "SRMR"}

ThresholdValues ==
    {Float(69, 100), Float(70, 100), Float(8, 100), Float(81, 1000), Float(90, 100)}

ValueLists == SeqsUpTo(ThresholdValues, MaxVals)

\* statistic p reports the list vals, the statistics in others report the
\* list rest, every other statistic reports nothing
NumsOf(p, vals, others, rest, inv) ==
    [k \in Stats \cup {"invariance_signal"} |->
        IF k = "invariance_signal" THEN inv
        ELSE IF k = p THEN vals
        ELSE IF k \in others THEN rest
        ELSE <<>>]

NumsInputs ==
    {NumsOf(p, vals, others, rest, inv) :
        p \in Stats, vals \in ValueLists, others \in SUBSET Stats,
        rest \in {<<Float(69, 100)>>, <<Float(90, 100), Float(8, 100)>>},
        inv \in BOOLEAN}

InitThresholds ==
    /\ pc = "threshold_comments"
    /\ nums \in NumsInputs
    /\ KB_CONS = None /\ KB_MEAS = None /\ blob = None /\ secs = None
    /\ focus = None /\ constructs = None /\ measures = None
    /\ comp_map = None /\ num_comments = None /\ sents = None
    /\ jj = None /\ report = None /\ prev = None

ThresholdComments ==
    /\ pc = "threshold_comments"
    /\ num_comments' = threshold_comments(nums)
    /\ pc' = "commented"
    /\ UNCHANGED <<KB_CONS, KB_MEAS, blob, secs, focus, constructs, measures,
                   comp_map, nums, sents, jj, report, prev>>

NextThresholds == ThresholdComments

SpecThresholds == InitThresholds /\ [][NextThresholds]_vars

\* the value in thousandths (the values drawn have at most three decimals)
Thousandths(v) == (v.num * 1000) \div v.den

SomeValue(vals, Ok(_)) == \E i \in 1..Len(vals) : Ok(Thousandths(vals[i]))

AtLeast700(x) == x >= 700
AtLeast900(x) == x >= 900
AtMost80(x) == x <= 80

VerdictsOf(label) ==
    {num_comments[i].verdict : i \in {j \in 1..Len(num_comments) : num_comments[j].label = label}}

Expected(ok, bad) == IF ok THEN {"OK"} ELSE {bad}

\* C6: "any value passes" with inclusive thresholds: alpha, omega and
\* test-retest/ICC are "OK" iff some value is >= 0.70, else "low"; CFI and
\* TLI "OK" iff some value is >= 0.90, else "poor"; RMSEA and SRMR "OK" iff
\* some value is <= 0.08, else "high".  Alpha 0.70 is "OK" and 0.69 "low";
\* RMSEA 0.08 is "OK" and 0.081 "high".
C6_AnyValuePasses ==
    pc = "commented" =>
        /\ \A st \in {"alpha", "omega", "test_retest_or_ICC"} :
              nums[st] # <<>> =>
                 VerdictsOf(st) = Expected(SomeValue(nums[st], AtLeast700), "low")
        /\ \A st \in {"CFI", "TLI"} :
              nums[st] # <<>> =>
                 VerdictsOf(st) = Expected(SomeValue(nums[st], AtLeast900), "poor")
        /\ \A st \in {"RMSEA", "SRMR"} :
              nums[st] # <<>> =>
                 VerdictsOf(st) = Expected(SomeValue(nums[st], AtMost80), "high")
        /\ nums.alpha = <<Float(70, 100)>> => VerdictsOf("alpha") = {"OK"}
        /\ nums.alpha = <<Float(69, 100)>> => VerdictsOf("alpha") = {"low"}
        /\ nums.RMSEA = <<Float(8, 100)>> => VerdictsOf("RMSEA") = {"OK"}
        /\ nums.RMSEA = <<Float(81, 1000)>> => VerdictsOf("RMSEA") = {"high"}

\* two values of which only one passes, at the inclusive boundary
C6_Witness ==
    /\ pc = "commented"
    /\ nums.alpha = <<Float(69, 100), Float(70, 100)>>
    /\ nums.RMSEA = <<Float(90, 100), Float(8, 100)>>
    /\ VerdictsOf("alpha") = {"OK"}
    /\ VerdictsOf("RMSEA") = {"OK"}

----------------------------------------------------------------------------
(* extract_numbers *)

DigitValue ==
    [d \in {"0", "1", "2", "3", "4", "5", "6", "7", "8", "9"} |->
        CASE d = "0" -> 0 [] d = "1" -> 1 [] d = "2" -> 2 [] d = "3" -> 3
          [] d = "4" -> 4 [] d = "5" -> 5 [] d = "6" -> 6 [] d = "7" -> 7
          [] d = "8" -> 8 [] d = "9" -> 9]

Dot == P(".")

\* \s* from position j: the first position at or after j that is no space
RECURSIVE SkipSpaces(_, _)
SkipSpaces(t, j) == IF j <= Len(t) /\ IsSpace(t[j]) THEN SkipSpaces(t, j + 1) ELSE j

\* \d* (greedy) from position j: the last position of the run of digits
RECURSIVE DigitsEnd(_, _)
DigitsEnd(t, j) == IF j <= Len(t) /\ IsDigit(t[j]) THEN DigitsEnd(t, j + 1) ELSE j - 1

\* 0* (greedy) from position j
RECURSIVE ZerosEnd(_, _)
ZerosEnd(t, j) == IF j <= Len(t) /\ t[j] = D("0") THEN ZerosEnd(t, j + 1) ELSE j - 1

\* the capture group at position j: ([0]\.\d{2,}|[1](?:\.0+)?) when one is
\* TRUE, (0\.\d{2,}) otherwise; the last position captured, 0 when no match
NumberAt(t, j, one) ==
    IF /\ j + 3 <= Len(t) /\ t[j] = D("0") /\ t[j + 1] = Dot
       /\ IsDigit(t[j + 2]) /\ IsDigit(t[j + 3])
    THEN DigitsEnd(t, j + 2)
    ELSE IF one /\ j <= Len(t) /\ t[j] = D("1")
    THEN IF j + 2 <= Len(t) /\ t[j + 1] = Dot /\ t[j + 2] = D("0")
         THEN ZerosEnd(t, j + 2)
         ELSE j
    ELSE 0

\* a statistic's pattern: the label words it accepts, whether the "=" or ":"
\* is optional, and whether the literal "1" is accepted.  In RE_ALPHA the
\* alternative cronbach[^a-zA-Z]*alpha ends in the word alpha and captures
\* the same literal as the alternative alpha.
Pattern(labels, sepOptional, one) ==
    [labels |-> labels, sepOptional |-> sepOptional, one |-> one]

RE_ALPHA == Pattern({"alpha"}, TRUE, TRUE)
RE_OMEGA == Pattern({"omega"}, TRUE, TRUE)
RE_TRT == Pattern({"test-retest", "test retest", "testretest", "icc"}, TRUE, TRUE)
RE_CFI == Pattern({"cfi"}, FALSE, FALSE)
RE_TLI == Pattern({"tli"}, FALSE, FALSE)
RE_RMSEA == Pattern({"rmsea"}, FALSE, FALSE)
RE_SRMR == Pattern({"srmr"}, FALSE, FALSE)

RE_INVAR ==
    {Alt("configural invariance"), Alt("metric invariance"), Alt("scalar invariance"),
     Alt("strict invariance"), Alt("measurement invariance"), Alt("dif")}

IsSep(a) == a = P("=") \/ a = P(":")

\* a match of the pattern starting with the label at position i: the span
\* <<first, last>> of the capture group, <<0, 0>> when there is no match
MatchAt(re, t, i) ==
    IF ~(t[i].k = "w" /\ t[i].w \in re.labels /\ t[i].s = 0) THEN <<0, 0>>
    ELSE LET j1 == SkipSpaces(t, i + 1)
             sep == j1 <= Len(t) /\ IsSep(t[j1])
             j2 == SkipSpaces(t, IF sep THEN j1 + 1 ELSE j1)
             e == IF sep \/ re.sepOptional THEN NumberAt(t, j2, re.one) ELSE 0
         IN IF e = 0 THEN <<0, 0>> ELSE <<j2, e>>

RECURSIVE DigitsToInt(_, _, _)
DigitsToInt(t, a, b) ==
    IF a > b THEN 0 ELSE DigitsToInt(t, a, b - 1) * 10 + DigitValue[t[b].w]

RECURSIVE Pow10(_)
Pow10(n) == IF n = 0 THEN 1 ELSE 10 * Pow10(n - 1)

\* float(x) of the captured literal at positions a..b
FloatOf(t, a, b) ==
    IF t[a] = D("1") THEN Float(1, 1)
    ELSE Float(DigitsToInt(t, a + 2, b), Pow10(b - a - 1))

\* pattern.findall(t) from position pos: the captures of the successive
\* leftmost non-overlapping matches
RECURSIVE FindAll(_, _, _)
FindAll(re, t, pos) ==
    IF \E i \in pos..Len(t) : MatchAt(re, t, i) # <<0, 0>>
    THEN LET i == CHOOSE i \in pos..Len(t) :
                     /\ MatchAt(re, t, i) # <<0, 0>>
                     /\ \A j \in pos..(i - 1) : MatchAt(re, t, j) = <<0, 0>>
             m == MatchAt(re, t, i)
         IN <<FloatOf(t, m[1], m[2])>> \o FindAll(re, t, m[2] + 1)
    ELSE <<>>

extract_numbers(text) ==
    [alpha |-> FindAll(RE_ALPHA, text, 1),
     omega |-> FindAll(RE_OMEGA, text, 1),
     test_retest_or_ICC |-> FindAll(RE_TRT, text, 1),
     CFI |-> FindAll(RE_CFI, text, 1),
     TLI |-> FindAll(RE_TLI, text, 1),
     RMSEA |-> FindAll(RE_RMSEA, text, 1),
     SRMR |-> FindAll(RE_SRMR, text, 1),
     invariance_signal |-> Search(RE_INVAR, text)]

----------------------------------------------------------------------------
(* Bounds and input sets of the extract_numbers specification *)

MaxNumLen == 5
MaxMentions == 2

alpha == W("alpha", 0, "lower")
Eq == P("=")
Colon == P(":")

NumAtoms == {alpha, Eq, SP, D("0"), D("1"), D("7"), Dot}

Mentions ==
    {<<alpha, SP, Eq, SP, D("0"), Dot, D("7"), D("0")>>,
     <<W("alpha", 0, "title"), SP, D("0"), Dot, D("6"), D("9")>>,
     <<W("omega", 0, "lower"), Colon, SP, D("0"), Dot, D("8"), D("5")>>,
     <<W("icc", 0, "upper"), SP, D("1"), Dot, D("0")>>,
     <<W("cfi", 0, "upper"), SP, Eq, SP, D("0"), Dot, D("9"), D("5")>>,
     <<W("tli", 0, "upper"), Eq, D("0"), Dot, D("8"), D("9")>>,
     <<W("rmsea", 0, "upper"), SP, Eq, SP, D("0"), Dot, D("0"), D("8")>>,
     <<W("srmr", 0, "upper"), Colon, SP, D("0"), Dot, D("0"), D("8"), D("1")>>,
     <<W("scalar invariance", 0, "lower")>>,
     <<W("cfi", 0, "upper"), SP, D("0"), Dot, D("9"), D("5")>>,
     <<alpha, SP, Eq, SP, D("1"), Dot, D("5")>>}

\* every statistic and the invariance cue, in the reverse of the comment
\* order, alpha reported twice
AllStatsText ==
    Join(<<SP>>,
         <<<<W("measurement invariance", 0, "title")>>,
           <<W("srmr", 0, "upper"), Eq, D("0"), Dot, D("0"), D("5")>>,
           <<W("rmsea", 0, "upper"), Eq, D("0"), Dot, D("0"), D("9")>>,
           <<W("tli", 0, "upper"), Eq, D("0"), Dot, D("9"), D("1")>>,
           <<W("cfi", 0, "upper"), Eq, D("0"), Dot, D("9"), D("5")>>,
           <<W("test-retest", 0, "lower"), SP, D("0"), Dot, D("7"), D("5")>>,
           <<W("omega", 0, "lower"), SP, D("0"), Dot, D("8"), D("0")>>,
           <<alpha, Eq, D("0"), Dot, D("6"), D("5")>>,
           <<alpha, Eq, D("0"), Dot, D("8"), D("8")>>>>)

NumberTexts ==
    SeqsUpTo(NumAtoms, MaxNumLen)
        \cup {Join(<<SP>>, ms) : ms \in SeqsUpTo(Mentions, MaxMentions)}
        \cup {AllStatsText}

InitNumbers ==
    /\ pc = "extract_numbers"
    /\ focus \in NumberTexts
    /\ KB_CONS = None /\ KB_MEAS = None /\ blob = None /\ secs = None
    /\ constructs = None /\ measures = None /\ comp_map = None
    /\ nums = None /\ num_comments = None /\ sents = None
    /\ jj = None /\ report = None /\ prev = None

ExtractNumbers ==
    /\ pc = "extract_numbers"
    /\ nums' = extract_numbers(focus)
    /\ pc' = "threshold_comments"
    /\ UNCHANGED <<KB_CONS, KB_MEAS, blob, secs, focus, constructs, measures,
                   comp_map, num_comments, sents, jj, report, prev>>

NextNumbers == ExtractNumbers \/ ThresholdComments

SpecNumbers == InitNumbers /\ [][NextNumbers]_vars

StatOrder == <<"alpha", "omega", "test_retest_or_ICC", "CFI", "TLI", "RMSEA", "SRMR">>

Reported(st) == nums[st] # <<>>

\* C7: for every document and statistic S, the comments hold exactly one line
\* for S if the extracted list of S is non-empty and none if it is empty; the
\* lines are in the order alpha, omega, test-retest/ICC, CFI, TLI, RMSEA,
\* SRMR, followed by one invariance advisory iff the invariance flag is true.
C7_OneCommentPerStatistic ==
    pc = "commented" =>
        /\ [i \in 1..Len(num_comments) |-> num_comments[i].label]
              = SelectSeq(StatOrder, Reported)
                   \o (IF nums.invariance_signal THEN <<ADVISORY.label>> ELSE <<>>)
        /\ \A i \in 1..Len(num_comments) :
              num_comments[i].label \in Stats
                  => num_comments[i].vals = nums[num_comments[i].label]

C7_Witness ==
    /\ pc = "commented"
    /\ focus = AllStatsText
    /\ Len(nums.alpha) = 2
    /\ \A st \in Stats : Reported(st)
    /\ nums.invariance_signal
    /\ Len(num_comments) = 8

IsDigitOrDot(a) == IsDigit(a) \/ a = Dot

\* a..b is a maximal run of digits and dots of t
LiteralRun(t, a, b) ==
    /\ \A i \in a..b : IsDigitOrDot(t[i])
    /\ a = 1 \/ ~IsDigitOrDot(t[a - 1])
    /\ b = Len(t) \/ ~IsDigitOrDot(t[b + 1])

\* positions a..b spell "0." and at least two digits, or "1", or "1.0+"
AcceptedShape(t, a, b) ==
    \/ /\ t[a] = D("0") /\ b >= a + 3 /\ t[a + 1] = Dot
       /\ \A i \in (a + 2)..b : IsDigit(t[i])
    \/ /\ t[a] = D("1") /\ b = a
    \/ /\ t[a] = D("1") /\ b >= a + 2 /\ t[a + 1] = Dot
       /\ \A i \in (a + 2)..b : t[i] = D("0")

\* the values of the complete literals of t that have the accepted shape (a
\* full stop closing the sentence is not part of the literal)
AcceptedValues(t) ==
    {FloatOf(t, a, b) :
        <<a, b>> \in {ab \in (1..Len(t)) \X (1..Len(t)) :
                        /\ ab[1] <= ab[2]
                        /\ AcceptedShape(t, ab[1], ab[2])
                        /\ \/ LiteralRun(t, ab[1], ab[2])
                           \/ /\ ab[2] < Len(t) /\ t[ab[2] + 1] = Dot
                              /\ LiteralRun(t, ab[1], ab[2] + 1)}}

\* C9: extract_numbers never parses part of a malformed or out-of-range
\* literal: every value collected for a statistic is the value of a complete
\* numeric literal of the text that has the accepted shape; "alpha = 1.5"
\* contributes no value.
C9_NoPartialParsing ==
    pc = "threshold_comments" =>
        \A st \in Stats :
            \A i \in 1..Len(nums[st]) : nums[st][i] \in AcceptedValues(focus)

----------------------------------------------------------------------------
(* sentences, find_sents *)

\* re.sub(r'\s+', ' ', text)
Collapse(t) ==
    LET FirstOfRun(i) == ~IsSpace(t[i]) \/ i = 1 \/ ~IsSpace(t[i - 1])
        kept == SelectSeq([i \in 1..Len(t) |-> i], FirstOfRun)
    IN [j \in 1..Len(kept) |-> IF IsSpace(t[kept[j]]) THEN SP ELSE t[kept[j]]]

\* [A-Z\(]
StartsUpper(a) == (a.k = "w" /\ a.cs \in {"title", "upper"}) \/ a = P("(")

\* SPLIT matches the space at position i of the collapsed text
SplitPoint(t, i) ==
    /\ i > 1 /\ t[i] = SP
    /\ \/ t[i - 1] = Dot /\ i < Len(t) /\ StartsUpper(t[i + 1])
       \/ t[i - 1] \in {P("!"), P("?")}

RECURSIVE SplitSentences(_)
SplitSentences(t) ==
    IF \E i \in 1..Len(t) : SplitPoint(t, i)
    THEN LET i == CHOOSE i \in 1..Len(t) :
                     SplitPoint(t, i) /\ \A j \in 1..(i - 1) : ~SplitPoint(t, j)
         IN <<SubSeq(t, 1, i - 1)>> \o SplitSentences(SubSeq(t, i + 1, Len(t)))
    ELSE <<t>>

NonBlank(t) == Strip(t) # <<>>

sentences(text) ==
    LET parts == SelectSeq(SplitSentences(Collapse(text)), NonBlank)
    IN [i \in 1..Len(parts) |-> Strip(parts[i])]

RE_DEF == {Alt("is defined as"), Alt("we define"), Alt("defined as"), Alt("refers to")}

RE_THEORY ==
    {Alt("model"), Alt("mechanism"), Alt("dual system"), AltS("dual system"),
     Alt("dual-system"), AltS("dual-system"), Alt("dualsystem"), AltS("dualsystem"),
     Alt("process model"), Alt("expected value of control"), Alt("valuation")}

RE_DESIGN ==
    {Alt("randomized"), Alt("randomised"), Alt("experiment"), Alt("intervention"),
     Alt("longitudinal"), Alt("cross-sectional"), Alt("cross sectional"),
     Alt("pre-post"), Alt("pre post"), Alt("rct")}

RE_VALIDITY ==
    {Alt("convergent"), Alt("discriminant"), Alt("criterion"), Alt("predictive"),
     Alt("known-groups"), Alt("known groups"), Alt("response-process"),
     Alt("response process")}

\* the for loop of find_sents, lines 79-82
RECURSIVE FindLoop(_, _, _, _)
FindLoop(ss, pattern, maxn, out) ==
    IF ss = <<>> THEN out
    ELSE LET o == IF Search(pattern, Head(ss)) THEN Append(out, Head(ss)) ELSE out
         IN IF Len(o) >= maxn THEN o ELSE FindLoop(Tail(ss), pattern, maxn, o)

find_sents(text, pattern, maxn) == FindLoop(sentences(text), pattern, maxn, <<>>)

----------------------------------------------------------------------------
(* detect_constructs, map_measures_to_components *)

\* node.get("canonical_labels", []) + node.get("near_neighbors", [])
Labels(node) == node.canonical_labels \o node.near_neighbors

\* hits.setdefault(key, set()).add(lbl) over the labels of one node
Hits(node, text) ==
    {lbl \in {Labels(node)[i] : i \in 1..Len(Labels(node))} : Found(lbl, text)}

\* sorted(v) of a set of labels is the duplicate-free list in string order:
\* it is given by the set
detect_constructs(text) ==
    LET keys == {KB_CONS[i].key : i \in {j \in 1..Len(KB_CONS) : Hits(KB_CONS[j], text) # {}}}
    IN [k \in keys |-> UNION {Hits(KB_CONS[i], text) : i \in {j \in 1..Len(KB_CONS) : KB_CONS[j].key = k}}]

\* sorted(set(v)) of a bucket is given by the set of its measure ids
map_measures_to_components(found) ==
    LET targets == UNION {{found[i].targets[j] : j \in 1..Len(found[i].targets)} :
                            i \in 1..Len(found)}
    IN [t \in targets |->
           {found[i].measure :
               i \in {n \in 1..Len(found) :
                        \E j \in 1..Len(found[n].targets) : found[n].targets[j] = t}}]

----------------------------------------------------------------------------
(* the analysis of an uploaded document, lines 172-260 *)

\* secs.get(k, "")
Get(sections, k) == IF k \in DOMAIN sections THEN sections[k] ELSE <<>>

\* mutant of FocusOf: the text before the first heading is analysed too
FocusWithFullText(sections) ==
    Join(<<SP>>,
         <<Get(sections, "Full Text"),
           Get(sections, "Abstract"),
           Get(sections, "Introduction"),
           Get(sections, "Theory"),
           Get(sections, "Method") \o <<SP>> \o Get(sections, "Measures"),
           Get(sections, "Results"),
           Get(sections, "Discussion")>>)

\* focus = " ".join([...]), lines 176-183
FocusOf(sections) ==
    Join(<<SP>>,
         <<Get(sections, "Abstract"),
           Get(sections, "Introduction"),
           Get(sections, "Theory"),
           Get(sections, "Method") \o <<SP>> \o Get(sections, "Measures"),
           Get(sections, "Results"),
           Get(sections, "Discussion")>>)

\* the maxn arguments of the five find_sents calls
DefsMax == 5
BoundsMax == 5
MechMax == 5
DesignMax == 5
ValidityMax == 6

\* the report dictionary, lines 248-260
Report(c, m, cm, d, b, th, de, v, n, nc, w) ==
    [constructs_detected |-> c, measures_detected |-> m, component_map |-> cm,
     definition_sents |-> d, boundary_sents |-> b, theory_sents |-> th,
     design_sents |-> de, validity_sents |-> v, numeric_indices |-> n,
     numeric_comments |-> nc, warnings |-> w]

\* one run of the script on the uploaded document doc; prev keeps the run
\* before it so that two runs can be compared, and a session is followed for
\* two uploads
Analyze(doc) ==
    /\ pc \in {"idle", "done"}
    /\ pc = "done" => prev.pc = "idle"
    /\ blob' = doc
    /\ secs' = sectionize(blob')
    /\ focus' = FocusOf(secs')
    /\ constructs' = detect_constructs(focus')
    /\ measures' = detect_measures(focus')
    /\ comp_map' = map_measures_to_components(measures')
    /\ nums' = extract_numbers(focus')
    /\ num_comments' = threshold_comments(nums')
    /\ sents' = [defs |-> find_sents(focus', RE_DEF, DefsMax),
                 bounds |-> find_sents(focus', RE_BOUNDARY, BoundsMax),
                 mech |-> find_sents(focus', RE_THEORY, MechMax),
                 design |-> find_sents(focus', RE_DESIGN, DesignMax),
                 validity |-> find_sents(focus', RE_VALIDITY, ValidityMax)]
    /\ jj' = jingle_jangle(focus', constructs', measures')
    /\ report' = Report(constructs', measures', comp_map', sents'.defs, sents'.bounds,
                        sents'.mech, sents'.design, sents'.validity, nums',
                        num_comments', jj')
    /\ prev' = [pc |-> pc, blob |-> blob, secs |-> secs, report |-> report]
    /\ pc' = "done"
    /\ UNCHANGED <<KB_CONS, KB_MEAS>>

----------------------------------------------------------------------------
(* Bounds and input sets of the pipeline specification *)

MaxDocLines == 3

SelfControl == W("self-control", 0, "title")
self_regulation == W("self-regulation", 0, "lower")

DocLines ==
    {<<Method>>,
     <<METHODS>>,
     <<W("background", 0, "title")>>,
     <<SelfControl, SP, W("is defined as", 0, "lower"), SP, self_regulation, SP,
       grit_s, SP, Stroop, Dot, SP, alpha, Eq, D("0"), Dot, D("7"), D("0"), SP,
       W("scalar invariance", 0, "lower"), Dot, SP, W("convergent", 0, "title"), SP,
       W("model", 0, "lower"), SP, W("rct", 0, "upper"), SP,
       W("distinct from", 0, "lower")>>}

Documents == {Join(<<NL>>, ls) : ls \in SeqsUpTo(DocLines, MaxDocLines)}

ConstructRegistry ==
    <<[key |-> "self-control", canonical_labels |-> <<SelfControl>>,
       near_neighbors |-> <<W("willpower", 0, "lower")>>],
      [key |-> "self-regulation", canonical_labels |-> <<self_regulation>>,
       near_neighbors |-> <<>>]>>

MeasureRegistry ==
    <<[measure |-> "GritS", aliases |-> <<W("short grit scale", 0, "title"), Grit_S>>,
       type |-> "self-report", targets |-> <<"persistence", "inhibition">>],
      [measure |-> "Stroop", aliases |-> <<Stroop>>, type |-> "behavioral task",
       targets |-> <<"inhibition">>]>>

Reverse(q) == [i \in 1..Len(q) |-> q[Len(q) + 1 - i]]

InitPipeline ==
    /\ pc = "idle"
    /\ KB_CONS = ConstructRegistry
    /\ KB_MEAS \in {MeasureRegistry, Reverse(MeasureRegistry)}
    /\ blob = None /\ secs = None /\ focus = None
    /\ constructs = None /\ measures = None /\ comp_map = None
    /\ nums = None /\ num_comments = None /\ sents = None
    /\ jj = None /\ report = None /\ prev = None

Upload == \E doc \in Documents : Analyze(doc)

NextPipeline == Upload

SpecPipeline == InitPipeline /\ [][NextPipeline]_vars

\* the st.metric signals, lines 204-211
Signals ==
    {sents.defs # <<>>, sents.mech # <<>>,
     nums.alpha # <<>> \/ nums.omega # <<>> \/ nums.test_retest_or_ICC # <<>>,
     nums.CFI # <<>> \/ nums.TLI # <<>> \/ nums.RMSEA # <<>> \/ nums.SRMR # <<>>,
     nums.invariance_signal, Len(sents.validity) # 0}

\* C8: for the empty document the run ends with a fully formed report in
\* which every boolean signal is false and every list and mapping is empty.
C8_EmptyInput ==
    (pc = "done" /\ blob = <<>>) =>
        /\ Signals = {FALSE}
        /\ DOMAIN report.constructs_detected = {}
        /\ report.measures_detected = <<>>
        /\ DOMAIN report.component_map = {}
        /\ report.definition_sents = <<>>
        /\ report.boundary_sents = <<>>
        /\ report.theory_sents = <<>>
        /\ report.design_sents = <<>>
        /\ report.validity_sents = <<>>
        /\ \A st \in Stats : report.numeric_indices[st] = <<>>
        /\ report.numeric_indices.invariance_signal = FALSE
        /\ report.numeric_comments = <<>>
        /\ report.warnings = <<>>

\* the empty document analysed after a document that produced detections
C8_Witness ==
    /\ pc = "done" /\ blob = <<>>
    /\ prev.pc = "done"
    /\ Len(prev.report.measures_detected) = 2
    /\ prev.report.warnings # <<>>
    /\ report.measures_detected = <<>>

FocusKeys ==
    {"Abstract", "Introduction", "Theory", "Method", "Measures", "Results", "Discussion"}

Agree(s1, s2) ==
    \A k \in FocusKeys :
        /\ k \in DOMAIN s1 <=> k \in DOMAIN s2
        /\ k \in DOMAIN s1 => s1[k] = s2[k]

\* C10: the report is determined by the knowledge base and the texts of the
\* sections keyed "Abstract", "Introduction", "Theory", "Method", "Measures",
\* "Results", "Discussion": two runs whose sectionize results agree on these
\* keys give identical reports, whatever is held under other keys, and a
\* document without a heading keyword gives the report of the empty document.
C10_ReportFromFocusSections ==
    (pc = "done" /\ prev.pc = "done") =>
        /\ Agree(prev.secs, secs) => report = prev.report
        /\ (prev.blob = <<>> /\ \A i \in 1..Len(Lines) : ~ContainsKeyword(Lines[i]))
              => report = prev.report

\* two different documents that agree on the seven keys, with detections, and
\* with different text under other keys
C10_Witness ==
    /\ pc = "done" /\ prev.pc = "done"
    /\ Agree(prev.secs, secs)
    /\ prev.secs["Full Text"] # secs["Full Text"]
    /\ "Method" \in DOMAIN secs
    /\ "Methods" \in DOMAIN secs /\ "Methods" \notin DOMAIN prev.secs
    /\ report.measures_detected # <<>>
    /\ report = prev.report

====
